---- MODULE Spec2Model ----
(***************************************************************************)
(* A model of static-blog-image-downloader: process_markdown scans the     *)
(* markdown files for image links, download_images fetches and saves each  *)
(* distinct URL under a semaphore, and replace_urls rewrites the files.     *)
(*                                                                         *)
(* Text is modelled as sequences of one-character strings, so that the     *)
(* regular expression, the extension rule, the digest and the path join    *)
(* are computed character by character as the code computes them.          *)
(***************************************************************************)
EXTENDS Integers, Sequences, FiniteSets, TLC

(***************************************************************************)
(* Characters.                                                             *)
(***************************************************************************)

\* The printable ASCII characters in code order; Ascii[i] has code i + 31
\* (position 65, the grave accent, is not used by the model).
Ascii ==
  << " ", "!", "\"", "#", "$", "%", "&", "'", "(", ")", "*", "+", ",", "-",
     ".", "/", "0", "1", "2", "3", "4", "5", "6", "7", "8", "9", ":", ";",
     "<", "=", ">", "?", "@", "A", "B", "C", "D", "E", "F", "G", "H", "I",
     "J", "K", "L", "M", "N", "O", "P", "Q", "R", "S", "T", "U", "V", "W",
     "X", "Y", "Z", "[", "\\", "]", "^", "_", "", "a", "b", "c", "d", "e",
     "f", "g", "h", "i", "j", "k", "l", "m", "n", "o", "p", "q", "r", "s",
     "t", "u", "v", "w", "x", "y", "z", "{", "|", "}", "~" >>

\* url.as_bytes(): the byte of a character ("\n" and "\t" are the two
\* control characters the documents of the model use).
ByteOf(c) ==
  IF c = "\n" THEN 10
  ELSE IF c = "\t" THEN 9
  ELSE 31 + (CHOOSE i \in 1..Len(Ascii) : Ascii[i] = c)

as_bytes(s) == [i \in 1..Len(s) |-> ByteOf(s[i])]

\* char::is_alphanumeric on the characters of the model.
is_alphanumeric(c) ==
  c \in { "0", "1", "2", "3", "4", "5", "6", "7", "8", "9",
          "A", "B", "C", "D", "E", "F", "G", "H", "I", "J", "K", "L", "M",
          "N", "O", "P", "Q", "R", "S", "T", "U", "V", "W", "X", "Y", "Z",
          "a", "b", "c", "d", "e", "f", "g", "h", "i", "j", "k", "l", "m",
          "n", "o", "p", "q", "r", "s", "t", "u", "v", "w", "x", "y", "z" }

\* The regex class \s on the characters of the model.
is_whitespace(c) == c \in { " ", "\t", "\n" }

\* s[from..to] as a sequence (empty when from > to).
Slice(s, from, to) == SubSeq(s, from, to)

(***************************************************************************)
(* utils.rs                                                                *)
(***************************************************************************)

\* str::find in the place of str::rfind: the position of the first dot.
find_dot(url) ==
  IF \E i \in 1..Len(url) : url[i] = "."
  THEN CHOOSE i \in 1..Len(url) :
         /\ url[i] = "."
         /\ \A j \in 1..(i - 1) : url[j] # "."
  ELSE 0

\* str::rfind of a dot: the position of the last dot, 0 when there is none.
rfind_dot(url) ==
  IF \E i \in 1..Len(url) : url[i] = "."
  THEN CHOOSE i \in 1..Len(url) :
         /\ url[i] = "."
         /\ \A j \in (i + 1)..Len(url) : url[j] # "."
  ELSE 0

\* get_path_ext: Some(suffix) is << suffix >>, None is << >>.
get_path_ext(url) ==
  LET dot_pos == rfind_dot(url)
      suffix  == Slice(url, dot_pos, Len(url))
  IN  IF dot_pos = 0 THEN << >>
      ELSE IF \A k \in 2..Len(suffix) : is_alphanumeric(suffix[k])
           THEN << suffix >>
           ELSE << >>

(***************************************************************************)
(* SHA-1 (sha1::Sha1::from(bytes).hexdigest()). A 32-bit word is the pair  *)
(* << high 16 bits, low 16 bits >>.                                        *)
(***************************************************************************)

Half == 65536

\* Bitwise combination of three 16-bit values, bit by bit:
\* "ch" is (x & y) | (~x & z), "maj" the majority, "par" x ^ y ^ z.
RECURSIVE Bits3(_, _, _, _, _)
Bits3(f, x, y, z, n) ==
  IF n = 0 THEN 0
  ELSE LET a == x % 2
           b == y % 2
           c == z % 2
           bit == CASE f = "ch"  -> IF a = 1 THEN b ELSE c
                    [] f = "maj" -> IF a + b + c >= 2 THEN 1 ELSE 0
                    [] OTHER     -> (a + b + c) % 2
       IN  bit + (2 * Bits3(f, x \div 2, y \div 2, z \div 2, n - 1))

Word3(f, x, y, z) ==
  << Bits3(f, x[1], y[1], z[1], 16), Bits3(f, x[2], y[2], z[2], 16) >>

Xor(x, y) == Word3("par", x, y, << 0, 0 >>)

\* Rotate a word left by n bits, 0 <= n < 32.
Rotl(w, n) ==
  LET v == IF n >= 16 THEN << w[2], w[1] >> ELSE w
      k == n % 16
      p == 2 ^ k
      q == 2 ^ (16 - k)
  IN  << ((v[1] * p) % Half) + (v[2] \div q), ((v[2] * p) % Half) + (v[1] \div q) >>

\* The sum of the words of a sequence, modulo 2^32.
RECURSIVE SumHalf(_, _)
SumHalf(ws, h) == IF ws = << >> THEN 0 ELSE Head(ws)[h] + SumHalf(Tail(ws), h)

Add(ws) ==
  LET lo == SumHalf(ws, 2)
      hi == SumHalf(ws, 1) + (lo \div Half)
  IN  << hi % Half, lo % Half >>

\* The padded message: the bytes, 0x80, zeros up to 56 mod 64, and the
\* bit length as a 64-bit big-endian number.
Padded(bytes) ==
  LET n     == Len(bytes)
      zeros == (119 - (n % 64)) % 64
      bits  == 8 * n
  IN  bytes \o << 128 >> \o [i \in 1..zeros |-> 0]
      \o << 0, 0, 0, 0, (bits \div 16777216) % 256, (bits \div 65536) % 256,
            (bits \div 256) % 256, bits % 256 >>

\* The sixteen big-endian words of block b (from 0) of a padded message.
BlockWords(msg, b) ==
  [t \in 1..16 |->
     LET o == (64 * b) + (4 * (t - 1))
     IN  << (256 * msg[o + 1]) + msg[o + 2], (256 * msg[o + 3]) + msg[o + 4] >>]

\* The message schedule: the sixteen words extended to eighty.
RECURSIVE Schedule(_)
Schedule(w) ==
  IF Len(w) = 80 THEN w
  ELSE LET t == Len(w) + 1
       IN  Schedule(Append(w,
             Rotl(Xor(Word3("par", w[t - 3], w[t - 8], w[t - 14]), w[t - 16]), 1)))

RoundF(t) == IF t < 20 THEN "ch" ELSE IF t < 40 THEN "par"
             ELSE IF t < 60 THEN "maj" ELSE "par"

RoundK(t) == IF t < 20 THEN << 23170, 31129 >>
             ELSE IF t < 40 THEN << 28377, 60321 >>
             ELSE IF t < 60 THEN << 36635, 48348 >>
             ELSE << 51810, 49622 >>

\* Round t (from 0) on the working state s = << a, b, c, d, e >>.
Round(t, s, w) ==
  << Add(<< Rotl(s[1], 5), Word3(RoundF(t), s[2], s[3], s[4]), s[5], RoundK(t), w[t + 1] >>),
     s[1], Rotl(s[2], 30), s[3], s[4] >>

\* The working states of one block: ss[t + 1] is the state after t rounds.
RECURSIVE Rounds(_, _)
Rounds(ss, w) ==
  IF Len(ss) = 81 THEN ss
  ELSE Rounds(Append(ss, Round(Len(ss) - 1, ss[Len(ss)], w)), w)

\* The eighty rounds of one block.
Compress(h, w) == Rounds(<< h >>, w)[81]

\* The chaining value after blocks b.. of the padded message.
RECURSIVE Blocks(_, _, _)
Blocks(msg, b, h) ==
  IF 64 * b >= Len(msg) THEN h
  ELSE LET s == Compress(h, Schedule(BlockWords(msg, b)))
       IN  Blocks(msg, b + 1,
                  << Add(<< h[1], s[1] >>), Add(<< h[2], s[2] >>), Add(<< h[3], s[3] >>),
                     Add(<< h[4], s[4] >>), Add(<< h[5], s[5] >>) >>)

Sha1(bytes) ==
  Blocks(Padded(bytes), 0,
         << << 26437, 8961 >>, << 61389, 43913 >>, << 39098, 56574 >>,
            << 4146, 21622 >>, << 50130, 57840 >> >>)

HexDigits ==
  << "0", "1", "2", "3", "4", "5", "6", "7", "8", "9", "a", "b", "c", "d", "e", "f" >>

HexOfHalf(v) ==
  << HexDigits[(v \div 4096) + 1], HexDigits[((v \div 256) % 16) + 1],
     HexDigits[((v \div 16) % 16) + 1], HexDigits[(v % 16) + 1] >>

\* hexdigest(): forty lowercase hexadecimal digits.
hexdigest(h) ==
  HexOfHalf(h[1][1]) \o HexOfHalf(h[1][2]) \o HexOfHalf(h[2][1]) \o HexOfHalf(h[2][2])
  \o HexOfHalf(h[3][1]) \o HexOfHalf(h[3][2]) \o HexOfHalf(h[4][1]) \o HexOfHalf(h[4][2])
  \o HexOfHalf(h[5][1]) \o HexOfHalf(h[5][2])

\* sha1::Sha1::from(url.as_bytes()).hexdigest()
sha1_hexdigest(url) == hexdigest(Sha1(as_bytes(url)))

(***************************************************************************)
(* regexp.rs. Offsets are counted from 0 and spans are half-open, as the   *)
(* regex crate reports them: the span [a, b) of s is Span(s, a, b).        *)
(***************************************************************************)

Span(s, a, b) == SubSeq(s, a + 1, b)

\* The literal lit occurs in s at offset i.
has_literal(s, i, lit) ==
  /\ i + Len(lit) <= Len(s)
  /\ \A k \in 1..Len(lit) : s[i + k] = lit[k]

\* [^\s)] : what ends the URL.
ends_url(c) == is_whitespace(c) \/ c = ")"

\* [^\s)]* from offset p: the end of the longest run of URL characters.
url_run_end(s, p) ==
  CHOOSE q \in p..Len(s) :
    /\ q = Len(s) \/ ends_url(s[q + 1])
    /\ \A k \in p..(q - 1) : ~ends_url(s[k + 1])

\* \s* from offset p: the end of the longest run of white space.
space_run_end(s, p) ==
  CHOOSE q \in p..Len(s) :
    /\ q = Len(s) \/ ~is_whitespace(s[q + 1])
    /\ \A k \in p..(q - 1) : is_whitespace(s[k + 1])

\* The offset of the first ")" at or after r that `.*?` can reach (the dot
\* does not match a line feed), or -1.
close_paren(s, r) ==
  LET ok(c) == /\ s[c + 1] = ")"
               /\ \A k \in r..(c - 1) : s[k + 1] \notin { ")", "\n" }
  IN  IF \E c \in r..(Len(s) - 1) : ok(c)
      THEN CHOOSE c \in r..(Len(s) - 1) : ok(c)
      ELSE -1

\* The least number of a set of numbers that is not empty.
Min(S) == CHOOSE x \in S : \A y \in S : x <= y

\* The match ends after the ")" at offset c, if there is one.
tail_closed(q, c) ==
  IF c = -1 THEN << >> ELSE << [url_end |-> q, end |-> c + 1] >>

\* \s*.*?\) after a URL that ends at offset q.
tail_after_url(s, q) == tail_closed(q, close_paren(s, space_run_end(s, q)))

\* (http[^\s)]*)\s*.*?\) with the "http" ending at offset p: both stars are
\* greedy, the dot-star is lazy; << [url_end, end] >> or << >>.
match_tail(s, p) == tail_after_url(s, url_run_end(s, p))

\* The offsets j at which the lazy `.*?` of the alt text can stop: the alt
\* text [i + 2, j) holds no line feed and the rest of the pattern matches.
alt_ends(s, i) ==
  { j \in (i + 2)..Len(s) :
      /\ has_literal(s, j, << "]", "(", "h", "t", "t", "p" >>)
      /\ \A k \in (i + 2)..(j - 1) : s[k + 1] # "\n"
      /\ match_tail(s, j + 6) # << >> }

\* Groups 0 and 1 of the match that starts at i, whose alt text ends at j
\* and whose tail is t.
groups(i, j, t) ==
  [start |-> i, end |-> t.end, url_start |-> j + 2, url_end |-> t.url_end]

\* The lazy alt text stops at the first offset it can stop at.
match_alt(s, i, ends) ==
  IF ends = {} THEN << >>
  ELSE << groups(i, Min(ends), match_tail(s, Min(ends) + 6)[1]) >>

\* The match of !\[.*?\]\((http[^\s)]*)\s*.*?\) that starts at offset i:
\* << [start, end, url_start, url_end] >> (groups 0 and 1) or << >>.
match_at(s, i) ==
  IF ~has_literal(s, i, << "!", "[" >>) THEN << >> ELSE match_alt(s, i, alt_ends(s, i))

\* The match at the least of the offsets starts.
first_match(s, starts) ==
  IF starts = {} THEN << >> ELSE match_at(s, Min(starts))

\* The leftmost match at or after offset from.
find_at(s, from) == first_match(s, { i \in from..Len(s) : match_at(s, i) # << >> })

\* Regex::captures_iter: the non-overlapping matches, leftmost first.
RECURSIVE captures_from(_, _)

\* The match m, when there is one, and the matches after its end.
captures_after(s, m) ==
  IF m = << >> THEN << >> ELSE m \o captures_from(s, m[1].end)

captures_from(s, from) == captures_after(s, find_at(s, from))

captures_iter(s) == captures_from(s, 0)

\* mat.get(1).unwrap().as_str()
url_of(s, cap) == Span(s, cap.url_start, cap.url_end)

\* The URLs of the matches caps of s.
urls_of(s, caps) == { url_of(s, caps[k]) : k \in 1..Len(caps) }

\* RegexWrapper::collect_urls: hashset with the URL of every match inserted.
collect_urls(contents, hashset) ==
  hashset \cup urls_of(contents, captures_iter(contents))

\* replace_append with the whole match replaced by the link.
replace_append_whole(mapping, s, cap) ==
  IF url_of(s, cap) \in DOMAIN mapping
  THEN mapping[url_of(s, cap)]
  ELSE Span(s, cap.start, cap.end)

\* replace_append with nothing pushed for a URL that has no entry.
replace_append_none(mapping, s, cap) ==
  IF url_of(s, cap) \in DOMAIN mapping
  THEN Span(s, cap.start, cap.url_start)
       \o mapping[url_of(s, cap)]
       \o Span(s, cap.url_end, cap.end)
  ELSE << >>

\* Replacer::replace_append: what is pushed to dst for one match.
replace_append(mapping, s, cap) ==
  LET base     == Span(s, cap.start, cap.end)
      replaced == url_of(s, cap)
  IN  IF replaced \in DOMAIN mapping
      THEN Span(base, 0, cap.url_start - cap.start)
           \o mapping[replaced]
           \o Span(base, cap.url_end - cap.start, Len(base))
      ELSE base

RECURSIVE replace_from(_, _, _, _)

\* replace_all with the text after the last match left out.
replace_from_no_rest(mapping, s, caps, last) ==
  IF caps = << >> THEN << >>
  ELSE Span(s, last, Head(caps).start)
       \o replace_append(mapping, s, Head(caps))
       \o replace_from(mapping, s, Tail(caps), Head(caps).end)

\* Regex::replace_all: the text between the matches copied, each match
\* replaced by what the replacer appends, then the text after the last match.
replace_from(mapping, s, caps, last) ==
  IF caps = << >> THEN Span(s, last, Len(s))
  ELSE Span(s, last, Head(caps).start)
       \o replace_append(mapping, s, Head(caps))
       \o replace_from(mapping, s, Tail(caps), Head(caps).end)

\* replace_urls with Regex::replace in the place of Regex::replace_all: the
\* first match only.
first_of(caps) == IF caps = << >> THEN << >> ELSE << Head(caps) >>

replace_urls_first(contents, mapping) ==
  replace_from(mapping, contents, first_of(captures_iter(contents)), 0)

\* RegexWrapper::replace_urls
replace_urls(contents, mapping) ==
  replace_from(mapping, contents, captures_iter(contents), 0)

(***************************************************************************)
(* The inputs of the model.                                                *)
(***************************************************************************)

\* How many markdown files the input directory holds at most.
MaxFiles == 2

\* The largest current_limit (Opts::current_limit is any u32, 0 included).
MaxLimit == 2

\* The first URL of tests::test_download_images and the link the test
\* expects for it under the prefix "/images".
TestUrl ==
  << "h", "t", "t", "p", "s", ":", "/", "/", "i", ".", "v", "2", "e", "x", ".", "c",
     "o", "/", "R", "7", "y", "A", "p", "I", "A", "5", "s", ".", "j", "p", "e", "g" >>

TestLink ==
  << "/", "i", "m", "a", "g", "e", "s", "/", "e", "3", "d", "0", "9", "3", "e", "d",
     "f", "2", "9", "9", "3", "1", "3", "3", "4", "7", "4", "9", "3", "e", "e", "d",
     "2", "4", "e", "8", "5", "3", "3", "0", "e", "a", "2", "2", "e", "a", "f", "c",
     ".", "j", "p", "e", "g" >>

\* The documents a markdown file can hold, U being TestUrl:
\*   1  ![a](U "t")
\*        an image with a title, then a line feed
\*   2  p ![](http://y/b) q
\*      ![a](U)
\*        two images on two lines, the first URL without an extension
\*   3  [l](U) text
\*        a link that is no image
\*   4  ![U](U)![b](U )
\*        one URL twice, and in the alt text as well
Corpus ==
  << << "!", "[", "a", "]", "(", "h", "t", "t", "p", "s", ":", "/", "/", "i", ".",
        "v", "2", "e", "x", ".", "c", "o", "/", "R", "7", "y", "A", "p", "I", "A",
        "5", "s", ".", "j", "p", "e", "g", " ", "\"", "t", "\"", ")", "\n" >>,
     << "p", " ", "!", "[", "]", "(", "h", "t", "t", "p", ":", "/", "/", "y", "/",
        "b", ")", " ", "q", "\n", "!", "[", "a", "]", "(", "h", "t", "t", "p", "s",
        ":", "/", "/", "i", ".", "v", "2", "e", "x", ".", "c", "o", "/", "R", "7",
        "y", "A", "p", "I", "A", "5", "s", ".", "j", "p", "e", "g", ")" >>,
     << "[", "l", "]", "(", "h", "t", "t", "p", "s", ":", "/", "/", "i", ".", "v",
        "2", "e", "x", ".", "c", "o", "/", "R", "7", "y", "A", "p", "I", "A", "5",
        "s", ".", "j", "p", "e", "g", ")", " ", "t", "e", "x", "t", "\n" >>,
     << "!", "[", "h", "t", "t", "p", "s", ":", "/", "/", "i", ".", "v", "2", "e",
        "x", ".", "c", "o", "/", "R", "7", "y", "A", "p", "I", "A", "5", "s", ".",
        "j", "p", "e", "g", "]", "(", "h", "t", "t", "p", "s", ":", "/", "/", "i",
        ".", "v", "2", "e", "x", ".", "c", "o", "/", "R", "7", "y", "A", "p", "I",
        "A", "5", "s", ".", "j", "p", "e", "g", ")", "!", "[", "b", "]", "(", "h",
        "t", "t", "p", "s", ":", "/", "/", "i", ".", "v", "2", "e", "x", ".", "c",
        "o", "/", "R", "7", "y", "A", "p", "I", "A", "5", "s", ".", "j", "p", "e",
        "g", " ", ")" >> >>

\* Documents that try the pattern of regexp.rs:
\*   5  ![a](http://y/b\n"t") z
\*        the white space after the URL is a line feed
\*   6  ![a\n](http://y/b)\n
\*        a line feed in the alt text: no image
\*   7  ![a](http://y/b "x) y") z
\*        a closing parenthesis inside the title
\*   8  ![![a](http://y/b)](http://x/c) ![d](http://y/b
\*        an image in the alt text of another, and one left open
\*   9  a ![x](http://y/b)![y](http://x/c.gif 't') b ![z](http://y/b) c![w](httpx)
\*        four images of three URLs with text around them
\*   10  plain text\n
\*        no URL at all
\*   11  the empty document
Tricky ==
  << << "!", "[", "a", "]", "(", "h", "t", "t", "p", ":", "/", "/", "y", "/", "b",
        "\n", "\"", "t", "\"", ")", " ", "z" >>,
     << "!", "[", "a", "\n", "]", "(", "h", "t", "t", "p", ":", "/", "/", "y", "/",
        "b", ")", "\n" >>,
     << "!", "[", "a", "]", "(", "h", "t", "t", "p", ":", "/", "/", "y", "/", "b",
        " ", "\"", "x", ")", " ", "y", "\"", ")", " ", "z" >>,
     << "!", "[", "!", "[", "a", "]", "(", "h", "t", "t", "p", ":", "/", "/", "y",
        "/", "b", ")", "]", "(", "h", "t", "t", "p", ":", "/", "/", "x", "/", "c",
        ")", " ", "!", "[", "d", "]", "(", "h", "t", "t", "p", ":", "/", "/", "y",
        "/", "b" >>,
     << "a", " ", "!", "[", "x", "]", "(", "h", "t", "t", "p", ":", "/", "/", "y",
        "/", "b", ")", "!", "[", "y", "]", "(", "h", "t", "t", "p", ":", "/", "/",
        "x", "/", "c", ".", "g", "i", "f", " ", "'", "t", "'", ")", " ", "b", " ",
        "!", "[", "z", "]", "(", "h", "t", "t", "p", ":", "/", "/", "y", "/", "b",
        ")", " ", "c", "!", "[", "w", "]", "(", "h", "t", "t", "p", "x", ")" >>,
     << "p", "l", "a", "i", "n", " ", "t", "e", "x", "t", "\n" >>,
     << >> >>

\* Every document of the model: the corpus, then the tricky ones.
Documents == Corpus \o Tricky

\* The links a mapping can hold: the link of the repository's test, the
\* empty link, and a link that reads as an image itself.
Links ==
  { TestLink, << >>,
    << "!", "[", "n", "]", "(", "h", "t", "t", "p", ":", "/", "/", "y", "/", "b",
       ")" >> }

\* The mappings replace_urls can get for a document: any of its URLs mapped
\* to any link, the others absent.
Mappings(contents) ==
  UNION { [keys -> Links] : keys \in SUBSET collect_urls(contents, {}) }

\* The input directories: at most MaxFiles files in glob order, each holding
\* a document of the corpus.
Trees == UNION { [1..n -> 1..Len(Corpus)] : n \in 0..MaxFiles }

\* The values of --link-prefix: the default "/images", "/images/" and "".
DefaultPrefix == << "/", "i", "m", "a", "g", "e", "s" >>

Prefixes == { DefaultPrefix, DefaultPrefix \o << "/" >>, << >> }

\* The bodies a server can answer with.
Bodies == { << "P", "N", "G" >>, << "G", "I", "F" >> }

\* The body the servers of a run answer with.
Body == << "P", "N", "G" >>

\* The URLs of the corpus.
CorpusUrls == UNION { collect_urls(Corpus[i], {}) : i \in 1..Len(Corpus) }

(***************************************************************************)
(* downloader.rs                                                           *)
(***************************************************************************)

VARIABLES
  tree,            \* the documents the files held when the run began
  files,           \* files[p]: the contents of markdown file p now
  link_prefix,     \* opts.link_prefix
  current_limit,   \* opts.current_limit
  pc,              \* where process_markdown is
  set,             \* the URLs collected
  file_list,       \* the paths scanned, in glob order
  urls,            \* download_images: what urls.into_iter() has yet to yield
  semaphore,       \* the permits available
  join_handles,    \* the URLs of the spawned tasks not yet awaited, in spawn order
  task,            \* task[u]: the spawned task of URL u
  results,         \* the map behind the mutex
  mutex,           \* << u >> when the task of URL u holds the mutex, else << >>
  output_dir,      \* output_dir[name]: the file of that name in the output directory
  fetches,         \* fetches[u]: how many times download_single ran for u
  result_mapping,  \* << m >> once download_images returned m, else << >>
  rewritten,       \* how many files of file_list have been written back
  calls,           \* the calls made when a function is called on its own
  sha1_digests     \* the pairs << URL, SHA-1 state >> of the URLs of the model:
                   \* the digest is a function of the bytes alone, computed once
                   \* as the run begins

vars ==
  << tree, files, link_prefix, current_limit, pc, set, file_list, urls, semaphore,
     join_handles, task, results, mutex, output_dir, fetches,
     result_mapping, rewritten, calls, sha1_digests >>

\* The empty map.
Empty == << >>

\* HashMap::insert
insert(m, k, v) == [x \in DOMAIN m \cup { k } |-> IF x = k THEN v ELSE m[x]]

\* PathBuf::from(prefix).join(file_name), as a string (Unix): an absolute
\* file_name replaces the prefix; a separator is pushed when the prefix is
\* not empty and does not end with one.
\* path_join as plain concatenation around a separator.
path_concat(prefix, file_name) == prefix \o << "/" >> \o file_name

path_join(prefix, file_name) ==
  IF file_name # << >> /\ file_name[1] = "/" THEN file_name
  ELSE IF prefix # << >> /\ prefix[Len(prefix)] # "/"
       THEN prefix \o << "/" >> \o file_name
       ELSE prefix \o file_name

\* sha1::Sha1::from(url.as_bytes()).hexdigest(), looked up when it is known.
url_hexdigest(url) ==
  IF \E d \in sha1_digests : d[1] = url
  THEN hexdigest((CHOOSE d \in sha1_digests : d[1] = url)[2])
  ELSE sha1_hexdigest(url)

\* file_name with the digest taken of the content, not of the URL.
file_name_of_content(content, url) ==
  LET ext == get_path_ext(url)
  IN  url_hexdigest(content) \o (IF ext = << >> THEN << >> ELSE ext[1])

\* save_single's file_name: the digest of the URL, then its extension.
file_name_of(content, url) ==
  LET ext == get_path_ext(url)
  IN  url_hexdigest(url) \o (IF ext = << >> THEN << >> ELSE ext[1])

\* save_single with the result of write_all not looked at.
save_single_unchecked_write(dir, content, url, outcome) ==
  CASE outcome = "create" -> [dir |-> dir, ret |-> << >>]
    [] outcome = "write"  ->
         [dir |-> insert(dir, file_name_of(content, url),
                         [content |-> << >>, complete |-> FALSE]),
          ret |-> << file_name_of(content, url) >>]
    [] OTHER ->
         [dir |-> insert(dir, file_name_of(content, url),
                         [content |-> content, complete |-> TRUE]),
          ret |-> << file_name_of(content, url) >>]

\* save_single on the directory dir: File::create fails ("create": nothing
\* is made), write_all fails ("write": the file is left incomplete), or the
\* file holds the content ("ok"). ret is << file_name >> for Ok, << >> for Err.
save_single(dir, content, url, outcome) ==
  LET file_name == file_name_of(content, url)
  IN  CASE outcome = "create" -> [dir |-> dir, ret |-> << >>]
        [] outcome = "write"  ->
             [dir |-> insert(dir, file_name, [content |-> << >>, complete |-> FALSE]),
              ret |-> << >>]
        [] OTHER ->
             [dir |-> insert(dir, file_name, [content |-> content, complete |-> TRUE]),
              ret |-> << file_name >>]

Init ==
  /\ sha1_digests = { << u, Sha1(as_bytes(u)) >> : u \in CorpusUrls }
  /\ tree \in Trees
  /\ files = [p \in 1..Len(tree) |-> Documents[tree[p]]]
  /\ link_prefix \in Prefixes
  /\ current_limit \in 0..MaxLimit
  /\ pc = "scan"
  /\ set = {}
  /\ file_list = << >>
  /\ urls = {}
  /\ semaphore = 0
  /\ join_handles = << >>
  /\ task = Empty
  /\ results = Empty
  /\ mutex = << >>
  /\ output_dir = Empty
  /\ fetches = Empty
  /\ result_mapping = << >>
  /\ rewritten = 0
  /\ calls = << >>

download_vars ==
  << urls, semaphore, join_handles, task, results, mutex, output_dir, fetches,
     result_mapping >>

\* ScanFile with the file opened for writing: it is cut to nothing.
ScanFileTruncates ==
  /\ pc = "scan"
  /\ Len(file_list) < Len(files)
  /\ set' = collect_urls(files[Len(file_list) + 1], set)
  /\ file_list' = Append(file_list, Len(file_list) + 1)
  /\ files' = [files EXCEPT ![Len(file_list) + 1] = << >>]
  /\ UNCHANGED << tree, link_prefix, current_limit, pc, rewritten, calls,
                  sha1_digests >>
  /\ UNCHANGED download_vars

\* process_markdown, the scan loop: one glob entry read and its URLs collected.
ScanFile ==
  /\ pc = "scan"
  /\ Len(file_list) < Len(files)
  /\ LET path == Len(file_list) + 1
     IN  /\ set' = collect_urls(files[path], set)
         /\ file_list' = Append(file_list, path)
  /\ UNCHANGED << tree, files, link_prefix, current_limit, pc, rewritten, calls,
                  sha1_digests >>
  /\ UNCHANGED download_vars

\* The scan loop: `entry?` or `read_to_string(&path)?` returns the error.
\* An error return is << "Err", variant of ProcessError, loop, call >>.
ScanError ==
  /\ pc = "scan"
  /\ Len(file_list) < Len(files)
  /\ \E e \in { << "Glob", "entry" >>, << "IO", "read_to_string" >> } :
       pc' = << "Err", e[1], "scan", e[2] >>
  /\ UNCHANGED << tree, files, link_prefix, current_limit, set, file_list, rewritten,
                  calls, sha1_digests >>
  /\ UNCHANGED download_vars

\* The scan loop ends and download_images is entered: the semaphore gets
\* current_limit permits and the result map is empty.
EnterDownload ==
  /\ pc = "scan"
  /\ Len(file_list) = Len(files)
  /\ pc' = "spawn"
  /\ urls' = set
  /\ semaphore' = current_limit
  /\ results' = Empty
  /\ UNCHANGED << tree, files, link_prefix, current_limit, set, file_list, rewritten,
                  calls, sha1_digests, join_handles, task, mutex, output_dir, fetches,
                  result_mapping >>

main_vars ==
  << tree, files, link_prefix, current_limit, set, file_list, rewritten, calls,
     sha1_digests >>

task_frame == << pc, urls, join_handles, result_mapping >>

\* Spawn with the permit not waited for: the task is spawned whether or not
\* a permit is available.
SpawnWithoutPermit(u) ==
  /\ pc = "spawn"
  /\ u \in urls
  /\ semaphore' = semaphore - 1
  /\ urls' = urls \ { u }
  /\ task' = insert(task, u, [pc |-> "fetch", content |-> << >>, link |-> << >>,
                              error |-> "", permit |-> TRUE])
  /\ join_handles' = Append(join_handles, u)
  /\ UNCHANGED << pc, results, mutex, output_dir, fetches, result_mapping >>
  /\ UNCHANGED main_vars

\* download_images, the spawn loop: a permit is acquired, then the task of
\* the next URL (in the hash set's order, which is any order) is spawned.
Spawn(u) ==
  /\ pc = "spawn"
  /\ u \in urls
  /\ semaphore > 0
  /\ semaphore' = semaphore - 1
  /\ urls' = urls \ { u }
  /\ task' = insert(task, u, [pc |-> "fetch", content |-> << >>, link |-> << >>,
                              error |-> "", permit |-> TRUE])
  /\ join_handles' = Append(join_handles, u)
  /\ UNCHANGED << pc, results, mutex, output_dir, fetches, result_mapping >>
  /\ UNCHANGED main_vars

\* The spawn loop ends.
SpawnDone ==
  /\ pc = "spawn"
  /\ urls = {}
  /\ pc' = "join"
  /\ UNCHANGED << urls, semaphore, join_handles, task, results, mutex, output_dir,
                  fetches, result_mapping >>
  /\ UNCHANGED main_vars

\* Join with the handle dropped instead of awaited.
JoinWithoutWaiting ==
  /\ pc = "join"
  /\ join_handles # << >>
  /\ join_handles' = Tail(join_handles)
  /\ UNCHANGED << pc, urls, semaphore, task, results, mutex, output_dir, fetches,
                  result_mapping >>
  /\ UNCHANGED main_vars

\* The join loop: the next handle is taken and awaited, which ends when its
\* task did.
Join ==
  /\ pc = "join"
  /\ join_handles # << >>
  /\ task[Head(join_handles)].pc = "done"
  /\ join_handles' = Tail(join_handles)
  /\ UNCHANGED << pc, urls, semaphore, task, results, mutex, output_dir, fetches,
                  result_mapping >>
  /\ UNCHANGED main_vars

\* download_images returns the map taken out of the Arc and the mutex.
Return ==
  /\ pc = "join"
  /\ join_handles = << >>
  /\ result_mapping' = << results >>
  /\ pc' = "rewrite"
  /\ UNCHANGED << urls, semaphore, join_handles, task, results, mutex, output_dir,
                  fetches >>
  /\ UNCHANGED main_vars


\* The task, step 1: download_single returns the body.
FetchOk(u) ==
  /\ u \in DOMAIN task
  /\ task[u].pc = "fetch"
  /\ fetches' = insert(fetches, u, (IF u \in DOMAIN fetches THEN fetches[u] ELSE 0) + 1)
  /\ task' = [task EXCEPT ![u].pc = "save", ![u].content = Body]
  /\ UNCHANGED << semaphore, results, mutex, output_dir >>
  /\ UNCHANGED task_frame
  /\ UNCHANGED main_vars

\* FetchErr with the error logged and the task going on to save nothing.
FetchErrGoesOn(u) ==
  /\ u \in DOMAIN task
  /\ task[u].pc = "fetch"
  /\ fetches' = insert(fetches, u, (IF u \in DOMAIN fetches THEN fetches[u] ELSE 0) + 1)
  /\ task' = [task EXCEPT ![u].pc = "save", ![u].error = "download"]
  /\ UNCHANGED << semaphore, results, mutex, output_dir >>
  /\ UNCHANGED task_frame
  /\ UNCHANGED main_vars

\* FetchErr with the request tried again.
FetchErrRetries(u) ==
  /\ u \in DOMAIN task
  /\ task[u].pc = "fetch"
  /\ fetches' = insert(fetches, u, (IF u \in DOMAIN fetches THEN fetches[u] ELSE 0) + 1)
  /\ UNCHANGED << task, semaphore, results, mutex, output_dir >>
  /\ UNCHANGED task_frame
  /\ UNCHANGED main_vars

\* FetchErr with the error handed on with `?` to the caller of
\* process_markdown.
FetchErrFailsRun(u) ==
  /\ u \in DOMAIN task
  /\ task[u].pc = "fetch"
  /\ fetches' = insert(fetches, u, (IF u \in DOMAIN fetches THEN fetches[u] ELSE 0) + 1)
  /\ task' = [task EXCEPT ![u].pc = "exit", ![u].error = "download"]
  /\ pc' = << "Err", "IO", "download", "download_single" >>
  /\ UNCHANGED << semaphore, results, mutex, output_dir >>
  /\ UNCHANGED << urls, join_handles, result_mapping >>
  /\ UNCHANGED main_vars

\* Step 1: download_single returns an error (the request cannot be built or
\* sent, it times out, the status is not 200, the body cannot be read); the
\* task logs it and returns.
FetchErr(u) ==
  /\ u \in DOMAIN task
  /\ task[u].pc = "fetch"
  /\ fetches' = insert(fetches, u, (IF u \in DOMAIN fetches THEN fetches[u] ELSE 0) + 1)
  /\ task' = [task EXCEPT ![u].pc = "exit", ![u].error = "download"]
  /\ UNCHANGED << semaphore, results, mutex, output_dir >>
  /\ UNCHANGED task_frame
  /\ UNCHANGED main_vars

\* Step 2: save_single; on an error the task logs it and returns, else the
\* link is the prefix joined with the file name.
Save(u, outcome) ==
  /\ u \in DOMAIN task
  /\ task[u].pc = "save"
  /\ LET save == save_single(output_dir, task[u].content, u, outcome)
     IN  /\ output_dir' = save.dir
         /\ task' = IF save.ret = << >>
                    THEN [task EXCEPT ![u].pc = "exit", ![u].error = "save"]
                    ELSE [task EXCEPT ![u].pc = "lock",
                                      ![u].link = path_join(link_prefix, save.ret[1])]
  /\ UNCHANGED << semaphore, results, mutex, fetches >>
  /\ UNCHANGED task_frame
  /\ UNCHANGED main_vars

\* Lock with the mutex taken although another task holds it.
LockWithoutWaiting(u) ==
  /\ u \in DOMAIN task
  /\ task[u].pc = "lock"
  /\ mutex' = << u >>
  /\ task' = [task EXCEPT ![u].pc = "insert"]
  /\ UNCHANGED << semaphore, results, output_dir, fetches >>
  /\ UNCHANGED task_frame
  /\ UNCHANGED main_vars

\* results.lock()
Lock(u) ==
  /\ u \in DOMAIN task
  /\ task[u].pc = "lock"
  /\ mutex = << >>
  /\ mutex' = << u >>
  /\ task' = [task EXCEPT ![u].pc = "insert"]
  /\ UNCHANGED << semaphore, results, output_dir, fetches >>
  /\ UNCHANGED task_frame
  /\ UNCHANGED main_vars

\* results.insert(url, link): the URL and the link move into the map.
Insert(u) ==
  /\ u \in DOMAIN task
  /\ task[u].pc = "insert"
  /\ results' = insert(results, u, task[u].link)
  /\ task' = [task EXCEPT ![u].pc = "drop", ![u].link = << >>]
  /\ UNCHANGED << semaphore, mutex, output_dir, fetches >>
  /\ UNCHANGED task_frame
  /\ UNCHANGED main_vars

\* Step 3: drop(permit)
DropPermit(u) ==
  /\ u \in DOMAIN task
  /\ task[u].pc = "drop"
  /\ semaphore' = semaphore + 1
  /\ task' = [task EXCEPT ![u].pc = "exit", ![u].permit = FALSE]
  /\ UNCHANGED << results, mutex, output_dir, fetches >>
  /\ UNCHANGED task_frame
  /\ UNCHANGED main_vars

\* Exit with the permit of an early return kept: the future ends and the
\* permit it owned is never given back.
ExitKeepsPermit(u) ==
  /\ u \in DOMAIN task
  /\ task[u].pc = "exit"
  /\ semaphore' = semaphore
  /\ mutex' = IF mutex = << u >> THEN << >> ELSE mutex
  /\ task' = [task EXCEPT ![u].pc = "done", ![u].permit = FALSE,
                          ![u].content = << >>]
  /\ UNCHANGED << results, output_dir, fetches >>
  /\ UNCHANGED task_frame
  /\ UNCHANGED main_vars

\* The task's future ends and what it still owns is dropped: the body, the
\* mutex guard after an insert, the permit after an early return.
Exit(u) ==
  /\ u \in DOMAIN task
  /\ task[u].pc = "exit"
  /\ semaphore' = IF task[u].permit THEN semaphore + 1 ELSE semaphore
  /\ mutex' = IF mutex = << u >> THEN << >> ELSE mutex
  /\ task' = [task EXCEPT ![u].pc = "done", ![u].permit = FALSE,
                          ![u].content = << >>]
  /\ UNCHANGED << results, output_dir, fetches >>
  /\ UNCHANGED task_frame
  /\ UNCHANGED main_vars

\* Rewrite with the documents rewritten while tasks are still joined, with
\* the entries inserted so far.
RewriteWhileJoining ==
  /\ pc = "join" \/ pc = "rewrite"
  /\ rewritten < Len(file_list)
  /\ files' = [files EXCEPT ![file_list[rewritten + 1]] =
                 replace_urls(files[file_list[rewritten + 1]], results)]
  /\ rewritten' = rewritten + 1
  /\ UNCHANGED << tree, link_prefix, current_limit, pc, set, file_list, calls,
                  sha1_digests >>
  /\ UNCHANGED download_vars

\* process_markdown, the rewrite loop: one file read, rewritten and written.
Rewrite ==
  /\ pc = "rewrite"
  /\ rewritten < Len(file_list)
  /\ LET path == file_list[rewritten + 1]
     IN  files' = [files EXCEPT ![path] = replace_urls(files[path], result_mapping[1])]
  /\ rewritten' = rewritten + 1
  /\ UNCHANGED << tree, link_prefix, current_limit, pc, set, file_list, calls,
                  sha1_digests >>
  /\ UNCHANGED download_vars

\* RewriteError with the documents written so far put back as they were.
RewriteErrorRollsBack ==
  /\ pc = "rewrite"
  /\ rewritten < Len(file_list)
  /\ \E call \in { "read_to_string", "write" } : pc' = << "Err", "IO", "rewrite", call >>
  /\ files' = [p \in 1..Len(files) |-> Documents[tree[p]]]
  /\ UNCHANGED << tree, link_prefix, current_limit, set, file_list, rewritten, calls,
                  sha1_digests >>
  /\ UNCHANGED download_vars

\* The rewrite loop: `read_to_string(&path)?` returns the error and the file
\* is as it was, or `fs::write(..)?` returns the error and the file is as it
\* was (it could not be opened) or cut short (here: empty).
RewriteError ==
  /\ pc = "rewrite"
  /\ rewritten < Len(file_list)
  /\ LET path == file_list[rewritten + 1]
     IN  \/ /\ pc' = << "Err", "IO", "rewrite", "read_to_string" >>
            /\ files' = files
         \/ /\ pc' = << "Err", "IO", "rewrite", "write" >>
            /\ \E cut \in BOOLEAN :
                 files' = IF cut THEN [files EXCEPT ![path] = << >>] ELSE files
  /\ UNCHANGED << tree, link_prefix, current_limit, set, file_list, rewritten, calls,
                  sha1_digests >>
  /\ UNCHANGED download_vars

\* The rewrite loop ends and process_markdown returns Ok(()).
Finish ==
  /\ pc = "rewrite"
  /\ rewritten = Len(file_list)
  /\ pc' = << "Ok" >>
  /\ UNCHANGED << tree, files, link_prefix, current_limit, set, file_list, rewritten,
                  calls, sha1_digests >>
  /\ UNCHANGED download_vars

Next ==
  \/ ScanFile
  \/ ScanError
  \/ EnterDownload
  \/ \E u \in urls : Spawn(u)
  \/ SpawnDone
  \/ Join
  \/ Return
  \/ \E u \in DOMAIN task : FetchOk(u)
  \/ \E u \in DOMAIN task : FetchErr(u)
  \/ \E u \in DOMAIN task, outcome \in { "ok", "create", "write" } : Save(u, outcome)
  \/ \E u \in DOMAIN task : Lock(u)
  \/ \E u \in DOMAIN task : Insert(u)
  \/ \E u \in DOMAIN task : DropPermit(u)
  \/ \E u \in DOMAIN task : Exit(u)
  \/ Rewrite
  \/ RewriteError
  \/ Finish

Spec == Init /\ [][Next]_vars

(***************************************************************************)
(* The rewrite loop on its own: process_markdown at the entry of its       *)
(* rewrite loop with one file that holds any document, and with any        *)
(* mapping for it.                                                         *)
(***************************************************************************)

InitRewrite ==
  /\ sha1_digests = {}
  /\ tree \in [1..1 -> 1..Len(Documents)]
  /\ files = [p \in 1..Len(tree) |-> Documents[tree[p]]]
  /\ link_prefix = DefaultPrefix
  /\ current_limit \in 1..MaxLimit
  /\ pc = "rewrite"
  /\ set = collect_urls(files[1], {})
  /\ file_list = << 1 >>
  /\ urls = {}
  /\ semaphore = current_limit
  /\ join_handles = << >>
  /\ task = Empty
  /\ results \in Mappings(files[1])
  /\ mutex = << >>
  /\ output_dir = Empty
  /\ fetches = Empty
  /\ result_mapping = << results >>
  /\ rewritten = 0
  /\ calls = << >>

NextRewrite ==
  \/ Rewrite
  \/ RewriteError
  \/ Finish

SpecRewrite == InitRewrite /\ [][NextRewrite]_vars

(***************************************************************************)
(* save_single on its own: two calls, each with any URL, any content and   *)
(* any outcome of the file system, in one run or in two runs that share    *)
(* the output directory.                                                   *)
(***************************************************************************)

\* How many calls of save_single are made.
MaxCalls == 2

\* The URLs save_single is called with: the URL of the repository's test,
\* one without an extension, and one whose last dot ends it.
SaveUrls ==
  { TestUrl,
    << "h", "t", "t", "p", ":", "/", "/", "y", "/", "b" >>,
    << "h", "t", "t", "p", ":", "/", "/", "e", "." >> }

InitSave ==
  /\ sha1_digests = { << u, Sha1(as_bytes(u)) >> : u \in SaveUrls \cup Bodies }
  /\ tree = << >>
  /\ files = << >>
  /\ link_prefix = DefaultPrefix
  /\ current_limit = 1
  /\ pc = "first run"
  /\ set = {}
  /\ file_list = << >>
  /\ urls = {}
  /\ semaphore = 0
  /\ join_handles = << >>
  /\ task = Empty
  /\ results = Empty
  /\ mutex = << >>
  /\ output_dir = Empty
  /\ fetches = Empty
  /\ result_mapping = << >>
  /\ rewritten = 0
  /\ calls \in [1..MaxCalls -> [url : SaveUrls, content : Bodies,
                         outcome : { "ok", "create", "write" },
                         ret : { << >> }, done : { FALSE }]]

save_frame ==
  << tree, files, link_prefix, current_limit, set, file_list, urls, semaphore,
     join_handles, task, results, mutex, fetches, result_mapping, rewritten,
     sha1_digests >>

\* The call k returns what save_single returns on the directory as it is.
returned(call, save) == [call EXCEPT !.ret = save.ret, !.done = TRUE]

\* The next call of save_single is made.
CallSaveSingle ==
  \E k \in 1..Len(calls) :
    /\ ~calls[k].done
    /\ \A j \in 1..(k - 1) : calls[j].done
    /\ calls' = [calls EXCEPT ![k] =
                   returned(calls[k], save_single(output_dir, calls[k].content,
                                                  calls[k].url, calls[k].outcome))]
    /\ output_dir' = save_single(output_dir, calls[k].content, calls[k].url,
                                 calls[k].outcome).dir
    /\ UNCHANGED pc
    /\ UNCHANGED save_frame

\* The program ends and is run again on the same output directory.
RunAgain ==
  /\ pc = "first run"
  /\ pc' = "second run"
  /\ UNCHANGED << calls, output_dir >>
  /\ UNCHANGED save_frame

NextSave ==
  \/ CallSaveSingle
  \/ RunAgain

SpecSave == InitSave /\ [][NextSave]_vars

(***************************************************************************)
(* get_path_ext on its own: one call with any short string over a few      *)
(* characters, or with one of the URLs of the documentation.              *)
(***************************************************************************)

\* How long the enumerated strings are at most.
MaxUrlLen == 3

\* The characters of the enumerated strings: a letter, a digit, the dot and
\* two characters that end an extension.
ExtChars == { "a", "1", ".", "/", "?" }

\* foo/bar.jpg, foo/bar.jpg?x=1 and foo/bar.
ExtExamples ==
  { << "f", "o", "o", "/", "b", "a", "r", ".", "j", "p", "g" >>,
    << "f", "o", "o", "/", "b", "a", "r", ".", "j", "p", "g", "?", "x", "=", "1" >>,
    << "f", "o", "o", "/", "b", "a", "r" >> }

ExtUrls ==
  UNION { [1..n -> ExtChars] : n \in 0..MaxUrlLen } \cup ExtExamples \cup { TestUrl }

InitExt ==
  /\ sha1_digests = {}
  /\ tree = << >>
  /\ files = << >>
  /\ link_prefix = DefaultPrefix
  /\ current_limit = 1
  /\ pc = "get_path_ext"
  /\ set = {}
  /\ file_list = << >>
  /\ urls = {}
  /\ semaphore = 0
  /\ join_handles = << >>
  /\ task = Empty
  /\ results = Empty
  /\ mutex = << >>
  /\ output_dir = Empty
  /\ fetches = Empty
  /\ result_mapping = << >>
  /\ rewritten = 0
  /\ calls \in [1..1 -> [url : ExtUrls, ret : { << >> }, done : { FALSE }]]

\* The call of get_path_ext is made and returns.
CallGetPathExt ==
  /\ pc = "get_path_ext"
  /\ ~calls[1].done
  /\ calls' = [calls EXCEPT ![1].ret = get_path_ext(calls[1].url), ![1].done = TRUE]
  /\ UNCHANGED << pc, output_dir >>
  /\ UNCHANGED save_frame

NextExt == CallGetPathExt

SpecExt == InitExt /\ [][NextExt]_vars

\* download_images on its own: called with any set of the corpus' URLs and any
\* number of permits, 0 included (main.rs:21 accepts every usize).
InitDownload ==
  /\ sha1_digests = { << u, Sha1(as_bytes(u)) >> : u \in CorpusUrls }
  /\ tree = << >>
  /\ files = << >>
  /\ link_prefix \in Prefixes
  /\ current_limit \in 0..MaxLimit
  /\ pc = "spawn"
  /\ set \in SUBSET CorpusUrls
  /\ file_list = << >>
  /\ urls = set
  /\ semaphore = current_limit
  /\ join_handles = << >>
  /\ task = Empty
  /\ results = Empty
  /\ mutex = << >>
  /\ output_dir = Empty
  /\ fetches = Empty
  /\ result_mapping = << >>
  /\ rewritten = 0
  /\ calls = << >>

\* What the runtime keeps doing: download_images goes on whenever its next
\* step can be taken, and so does every spawned task (each request ends, with
\* a response or with an error, the timeout included).
MainStep ==
  \/ \E u \in urls : Spawn(u)
  \/ SpawnDone
  \/ Join
  \/ Return

TaskStep(u) ==
  \/ FetchOk(u)
  \/ FetchErr(u)
  \/ \E outcome \in { "ok", "create", "write" } : Save(u, outcome)
  \/ Lock(u)
  \/ Insert(u)
  \/ DropPermit(u)
  \/ Exit(u)

NextDownload ==
  \/ MainStep
  \/ \E u \in CorpusUrls : TaskStep(u)

SpecDownload ==
  /\ InitDownload /\ [][NextDownload]_vars
  /\ WF_vars(MainStep)
  /\ \A u \in CorpusUrls : WF_vars(TaskStep(u))

(***************************************************************************)
(* The properties.                                                         *)
(***************************************************************************)

\* The tasks that were started and have not reached a terminal state: they
\* are fetching, saving, or about to insert.
InFlight == { u \in DOMAIN task : task[u].pc \in { "fetch", "save", "lock", "insert" } }

\* download_images has returned to process_markdown.
Returned == result_mapping # << >>

\* C1: at no time are more than current_limit tasks in flight (started and
\* not yet at success, fetch failure or save failure), whatever the number
\* of URLs is.
C1_ConcurrencyCeiling == Cardinality(InFlight) <= current_limit

\* C1's case: more URLs than permits, every permit taken by a task in
\* flight, and a URL waiting for one.
C1_Witness ==
  /\ Cardinality(set) > current_limit
  /\ current_limit > 0
  /\ Cardinality(InFlight) = current_limit
  /\ urls # {}

\* C2: the keys of the returned map are exactly the URLs whose own fetch and
\* own save succeeded, and their number is the number of URLs minus the
\* number of those that failed.
C2_ReturnedKeys ==
  Returned =>
    LET failed == { u \in set : u \notin DOMAIN task \/ task[u].error # "" }
    IN  /\ DOMAIN result_mapping[1] = set \ failed
        /\ Cardinality(DOMAIN result_mapping[1]) = Cardinality(set) - Cardinality(failed)

\* C2's case: a run with two URLs returned, one failed and the other is in
\* the map.
C2_Witness ==
  /\ Returned
  /\ \E u \in set, v \in set :
       /\ task[u].error # ""
       /\ v \in DOMAIN result_mapping[1]

\* C3: download_single runs at most once for a URL, only for the URLs
\* collected, and exactly once for each of them by the time download_images
\* returns.
C3_OneFetchPerUrl ==
  /\ DOMAIN fetches \subseteq set
  /\ \A u \in DOMAIN fetches : fetches[u] <= 1
  /\ Returned => \A u \in set : u \in DOMAIN fetches /\ fetches[u] = 1

\* C3's case: a URL that both of two files hold was fetched once, the fetch
\* of another URL failed, and download_images returned.
C3_Witness ==
  /\ Returned
  /\ Len(files) = 2
  /\ \E u \in set, v \in set :
       /\ u # v
       /\ \A p \in 1..2 : u \in collect_urls(Corpus[tree[p]], {})
       /\ fetches[u] = 1
       /\ task[v].error = "download"

\* C4: once download_images returned, every URL was dispatched, every task
\* is at its end, and the map is what was returned (no task inserts later).
C4_ReturnsAfterAllTasks ==
  Returned =>
    /\ urls = {}
    /\ join_handles = << >>
    /\ DOMAIN task = set
    /\ \A u \in DOMAIN task : task[u].pc = "done"
    /\ results = result_mapping[1]

\* C4's case: download_images returned after two tasks ran side by side.
C4_Witness ==
  /\ Returned
  /\ current_limit = 2
  /\ Cardinality(DOMAIN task) = 2
  /\ DOMAIN result_mapping[1] # {}
\* The 40 hex digits of the SHA-1 digest of u's bytes.
DigestOf(u) == url_hexdigest(u)

\* The inferred extension of u, empty when there is none.
ExtOf(u) == IF get_path_ext(u) = << >> THEN << >> ELSE get_path_ext(u)[1]

\* C5 as it was stated: for every link prefix, the link recorded for a URL
\* is the prefix, then "/", then the SHA-1 digest of the URL in 40 hex
\* digits, then the URL's extension when it has one.
C5_LinkIsPrefixSlashName ==
  \A u \in DOMAIN results :
    results[u] = link_prefix \o << "/" >> \o DigestOf(u) \o ExtOf(u)

\* C5, amended: the link recorded for a URL is the prefix, then "/" unless
\* the prefix is empty or ends with "/", then the SHA-1 digest of the URL in
\* 40 hex digits, then the URL's extension when it has one; for the URL and
\* the prefix of the repository's test it is the link the test expects.
C5_LinkIsJoinedPath ==
  /\ \A u \in DOMAIN results :
       LET sep == IF link_prefix = << >> \/ link_prefix[Len(link_prefix)] = "/"
                  THEN << >> ELSE << "/" >>
           digest == DigestOf(u)
       IN  /\ results[u] = link_prefix \o sep \o digest \o ExtOf(u)
           /\ Len(digest) = 40
           /\ { digest[k] : k \in 1..40 } \subseteq { HexDigits[h] : h \in 1..16 }
  /\ TestUrl \in DOMAIN results /\ link_prefix = DefaultPrefix
       => results[TestUrl] = TestLink

\* C5's case: download_images returned links under a prefix that ends with
\* "/", the test's link for the test's URL (no second "/" was added) and one
\* for a URL without an extension.
C5_Witness ==
  /\ Returned
  /\ link_prefix = DefaultPrefix \o << "/" >>
  /\ TestUrl \in DOMAIN result_mapping[1]
  /\ result_mapping[1][TestUrl] = TestLink
  /\ \E u \in DOMAIN result_mapping[1], v \in DOMAIN result_mapping[1] :
       ExtOf(u) # << >> /\ ExtOf(v) = << >>
\* The document that file p held when the run began.
Source(p) == Documents[tree[p]]

\* The text occurs in out at offset o.
OccursAt(out, o, text) ==
  /\ o + Len(text) <= Len(out)
  /\ \A i \in 1..Len(text) : out[o + i] = text[i]

\* By how much the text after the first n matches of s has moved in the
\* output: each of these matches whose URL has a link got the link in the
\* place of the URL.
RECURSIVE Shift(_, _, _, _)
Shift(s, caps, mapping, n) ==
  IF n = 0 THEN 0
  ELSE Shift(s, caps, mapping, n - 1)
       + (IF url_of(s, caps[n]) \in DOMAIN mapping
          THEN Len(mapping[url_of(s, caps[n])]) - (caps[n].url_end - caps[n].url_start)
          ELSE 0)

\* Every match of s whose URL has a link stands in out as its text before
\* the URL, the link, and its text after the URL.
MappedRewritten(out, s, caps, mapping) ==
  \A k \in 1..Len(caps) :
    url_of(s, caps[k]) \in DOMAIN mapping =>
      OccursAt(out, caps[k].start + Shift(s, caps, mapping, k - 1),
               Span(s, caps[k].start, caps[k].url_start)
               \o mapping[url_of(s, caps[k])]
               \o Span(s, caps[k].url_end, caps[k].end))

\* Every match of s whose URL has no link stands in out as it is in s.
UnmappedKept(out, s, caps, mapping) ==
  \A k \in 1..Len(caps) :
    url_of(s, caps[k]) \notin DOMAIN mapping =>
      OccursAt(out, caps[k].start + Shift(s, caps, mapping, k - 1),
               Span(s, caps[k].start, caps[k].end))

\* The text of s before, between and after the matches stands in out as it
\* is in s, and out holds nothing after it.
OutsideKept(out, s, caps, mapping) ==
  /\ \A g \in 0..Len(caps) :
       OccursAt(out,
                (IF g = 0 THEN 0 ELSE caps[g].end) + Shift(s, caps, mapping, g),
                Span(s, IF g = 0 THEN 0 ELSE caps[g].end,
                        IF g = Len(caps) THEN Len(s) ELSE caps[g + 1].start))
  /\ Len(out) = Len(s) + Shift(s, caps, mapping, Len(caps))
  /\ caps = << >> => out = s

\* C6: in every file written back, each image whose URL is a key of the
\* mapping reads: its text before the URL, the mapped link, its text after
\* the URL up to its end; nothing of it but the URL has changed.
C6_MappedConstructRewritten ==
  \A p \in 1..rewritten :
    MappedRewritten(files[p], Source(p), captures_iter(Source(p)), result_mapping[1])

\* C6's case: the file held  ![a](U "t")  with U mapped to the link of the
\* repository's test, and was written back as  ![a](/images/e3d0..fc.jpeg "t").
C6_Witness ==
  /\ rewritten = 1
  /\ tree[1] = 1
  /\ TestUrl \in DOMAIN result_mapping[1]
  /\ result_mapping[1][TestUrl] = TestLink
  /\ files[1] = << "!", "[", "a", "]", "(" >> \o TestLink
                  \o << " ", "\"", "t", "\"", ")", "\n" >>

\* C7: in every file written back, each image whose URL has no entry in the
\* mapping reads as it did in the source, its remote URL included.
C7_UnmappedConstructKept ==
  \A p \in 1..rewritten :
    UnmappedKept(files[p], Source(p), captures_iter(Source(p)), result_mapping[1])

\* C7's case: a file of four images was written back; the URL of the first
\* and third has a link, those of the second and fourth have none.
C7_Witness ==
  /\ rewritten = 1
  /\ tree[1] = 9
  /\ DOMAIN result_mapping[1] = { << "h", "t", "t", "p", ":", "/", "/", "y", "/", "b" >> }
  /\ files[1] =
       << "a", " ", "!", "[", "x", "]", "(" >> \o TestLink \o << ")" >>
       \o << "!", "[", "y", "]", "(", "h", "t", "t", "p", ":", "/", "/", "x", "/", "c", ".", "g", "i", "f", " ", "'", "t", "'", ")", " ", "b", " " >>
       \o << "!", "[", "z", "]", "(" >> \o TestLink \o << ")" >>
       \o << " ", "c", "!", "[", "w", "]", "(", "h", "t", "t", "p", "x", ")" >>

\* C8: in every file written back, the text before, between and after the
\* images is the text of the source, whatever the mapping is, and a file
\* without an image is written back as it was.
C8_OutsideMatchesUnchanged ==
  \A p \in 1..rewritten :
    OutsideKept(files[p], Source(p), captures_iter(Source(p)), result_mapping[1])

\* C8's case: a file with text around three images was written back with
\* the empty link for each URL that has one.
C8_Witness ==
  /\ rewritten = 1
  /\ tree[1] = 9
  /\ Cardinality(DOMAIN result_mapping[1]) = 2
  /\ \A u \in DOMAIN result_mapping[1] : result_mapping[1][u] = << >>
  /\ Len(files[1]) < Len(Source(1))
\* Every image of s whose URL is u has, in out, the link in the place of u.
AllOccurrencesLinked(out, s, caps, mapping, u, link) ==
  \A k \in 1..Len(caps) :
    url_of(s, caps[k]) = u =>
      OccursAt(out, caps[k].url_start + Shift(s, caps, mapping, k - 1), link)

\* C9: a URL whose fetch and save succeeded has one link, and every image
\* with that URL, in every file written back, holds that link in the place
\* of the URL, however many files or images hold the URL.
C9_SameLinkEverywhere ==
  rewritten > 0 =>
    \A u \in set :
      task[u].error = "" =>
        /\ u \in DOMAIN result_mapping[1]
        /\ result_mapping[1][u] # u
        /\ \A p \in 1..rewritten :
             AllOccurrencesLinked(files[p], Source(p), captures_iter(Source(p)),
                                  result_mapping[1], u, result_mapping[1][u])

\* C9's case: the URL stands twice in the second file and once in the first
\* (next to a URL whose download failed), and both files were written back
\* with the link of the repository's test for it.
C9_Witness ==
  /\ rewritten = 2
  /\ tree = << 2, 4 >>
  /\ link_prefix = DefaultPrefix
  /\ DOMAIN result_mapping[1] = { TestUrl }
  /\ files[1] = 
       << "p", " ", "!", "[", "]", "(", "h", "t", "t", "p", ":", "/", "/", "y", "/", "b", ")", " ", "q", "\n", "!", "[", "a", "]", "(" >> \o TestLink \o << ")" >>
  /\ files[2] = << "!", "[" >> \o TestUrl \o << "]", "(" >> \o TestLink
                  \o << ")", "!", "[", "b", "]", "(" >> \o TestLink \o << " ", ")" >>
\* C10: two calls of save_single that return a file name for the same URL
\* return the same file name, whatever the contents are and whether the
\* calls are made in one run or in two.
C10_NameFromUrlAlone ==
  \A i \in 1..Len(calls), j \in 1..Len(calls) :
    /\ calls[i].done /\ calls[j].done
    /\ calls[i].ret # << >> /\ calls[j].ret # << >>
    /\ calls[i].url = calls[j].url
    => calls[i].ret = calls[j].ret

\* C10's case: save_single has named the file of the test's URL twice, once
\* in each run and with different contents, by the name the test expects.
C10_Witness ==
  /\ pc = "second run"
  /\ Len(calls) >= 2
  /\ calls[1].done /\ calls[2].done
  /\ calls[1].url = TestUrl /\ calls[2].url = TestUrl
  /\ calls[1].content # calls[2].content
  /\ calls[1].ret = << Span(TestLink, Len(DefaultPrefix) + 1, Len(TestLink)) >>
  /\ calls[2].ret = calls[1].ret
  /\ Cardinality(DOMAIN output_dir) = 1
\* The positions of the dots of u.
Dots(u) == { i \in 1..Len(u) : u[i] = "." }

\* The greatest number of a set of numbers that is not empty.
Max(S) == CHOOSE x \in S : \A y \in S : y <= x

\* Every character of u after position i is alphanumeric.
AlnumAfter(u, i) == \A j \in (i + 1)..Len(u) : is_alphanumeric(u[j])

\* C11: get_path_ext returns the text from the last dot to the end exactly
\* when the URL has a dot and every character after the last dot is
\* alphanumeric; otherwise (no dot, or a query string, a slash or another
\* character that is not alphanumeric after the last dot) it returns none.
C11_ExtensionRule ==
  \A k \in 1..Len(calls) :
    calls[k].done =>
      IF Dots(calls[k].url) # {} /\ AlnumAfter(calls[k].url, Max(Dots(calls[k].url)))
      THEN calls[k].ret
             = << SubSeq(calls[k].url, Max(Dots(calls[k].url)), Len(calls[k].url)) >>
      ELSE calls[k].ret = << >>

\* C11's case: for the URL of the repository's test, which has dots in its
\* host name as well, get_path_ext returned ".jpeg".
C11_Witness ==
  /\ pc = "get_path_ext"
  /\ calls[1].done
  /\ calls[1].url = TestUrl
  /\ calls[1].ret = << << ".", "j", "p", "e", "g" >> >>
\* process_markdown has returned Ok(()).
ReturnedOk == << "Ok" >> = pc

\* The error returns of process_markdown that come from the scan loop and
\* from the rewrite loop.
ScanErrors ==
  { << "Err", "Glob", "scan", "entry" >>, << "Err", "IO", "scan", "read_to_string" >> }

RewriteErrors ==
  { << "Err", "IO", "rewrite", "read_to_string" >>, << "Err", "IO", "rewrite", "write" >> }

\* The URLs whose task fetched and saved without an error.
Succeeded == { u \in DOMAIN task : task[u].error = "" /\ task[u].pc = "done" }

\* out is s rewritten with the mapping, caps being the matches of s.
RewrittenAs(out, s, caps, mapping) ==
  /\ MappedRewritten(out, s, caps, mapping)
  /\ UnmappedKept(out, s, caps, mapping)
  /\ OutsideKept(out, s, caps, mapping)

\* File p reads as its source rewritten with the mapping.
RewrittenWith(p, mapping) ==
  RewrittenAs(files[p], Source(p), captures_iter(Source(p)), mapping)

\* C12: an error of a task does not end the run: an error is returned only
\* by a document read or write, in the scan loop before download_images is
\* entered or in the rewrite loop after it returned; and when
\* process_markdown returns Ok, whatever tasks failed, every document has
\* been rewritten with the mapping of the URLs that succeeded.
C12_TaskFailuresDoNotFailTheRun ==
  /\ (\E e \in ScanErrors : e = pc) => task = Empty /\ fetches = Empty
  /\ (\E u \in DOMAIN task : task[u].error # "") =>
       pc = "spawn" \/ pc = "join" \/ Returned
  /\ (\E e \in RewriteErrors : e = pc) => Returned /\ rewritten < Len(file_list)
  /\ ReturnedOk =>
       /\ rewritten = Len(files)
       /\ DOMAIN result_mapping[1] = Succeeded
       /\ \A p \in 1..Len(files) : RewrittenWith(p, result_mapping[1])

\* C12's case: the download of one URL and the save of the other failed, and
\* process_markdown returned Ok with both documents written back as they
\* were.
C12_Witness ==
  /\ ReturnedOk
  /\ Len(files) = 2
  /\ Cardinality(set) = 2
  /\ \E u \in set, v \in set : task[u].error = "download" /\ task[v].error = "save"
  /\ \A p \in 1..2 : files[p] = Source(p)
\* No fetch was issued, no file was made and no document was changed.
NothingDone ==
  /\ fetches = Empty
  /\ output_dir = Empty
  /\ \A p \in 1..Len(files) : files[p] = Source(p)

\* C13 as it was stated: whenever process_markdown has returned an error of
\* the enumeration or of a read of a document, no fetch was issued, no file
\* was made and no document was changed.
C13_ReadErrorsBeforeDownloads ==
  (\E e \in ScanErrors \cup { << "Err", "IO", "rewrite", "read_to_string" >> } : e = pc)
    => NothingDone

\* C13, amended: whenever process_markdown has returned an error of the
\* enumeration or of a read of a document in its scan loop, download_images
\* was not entered: no fetch was issued, no file was made and no document was
\* changed.
C13_ScanErrorsBeforeDownloads ==
  (\E e \in ScanErrors : e = pc) =>
    /\ NothingDone
    /\ task = Empty
    /\ ~Returned

\* C13's case: the first of two documents was read, it holds a URL, and the
\* read of the second failed.
C13_Witness ==
  /\ << "Err", "IO", "scan", "read_to_string" >> = pc
  /\ Len(files) = 2
  /\ Len(file_list) = 1
  /\ set # {}
\* The file name of a link: what follows its last "/".
LinkFileName(link) ==
  SubSeq(link, Max({ 0 } \cup { i \in 1..Len(link) : link[i] = "/" }) + 1, Len(link))

\* The file of the link is in the output directory, completely written.
Materialized(link) ==
  /\ LinkFileName(link) \in DOMAIN output_dir
  /\ output_dir[LinkFileName(link)].complete

\* C14: when the write of a document has failed, process_markdown has
\* returned the error, the documents written back before it still read as
\* rewritten, the files of the mapping are still in the output directory,
\* and the documents after it were not touched.
C14_NoRollbackOnWriteError ==
  (<< "Err", "IO", "rewrite", "write" >> = pc) =>
    /\ rewritten < Len(files)
    /\ \A p \in 1..rewritten : RewrittenWith(p, result_mapping[1])
    /\ \A p \in (rewritten + 2)..Len(files) : files[p] = Source(p)
    /\ \A u \in DOMAIN result_mapping[1] : Materialized(result_mapping[1][u])

\* C14's case: the first document was written back with a link in it, and
\* the write of the second failed and left it cut short.
C14_Witness ==
  /\ << "Err", "IO", "rewrite", "write" >> = pc
  /\ Len(files) = 2
  /\ rewritten = 1
  /\ files[1] # Source(1)
  /\ files[2] = << >>
  /\ output_dir # Empty
\* The URLs of all the documents the run began with.
AllSourceUrls == UNION { urls_of(Source(p), captures_iter(Source(p))) : p \in 1..Len(files) }

\* C15: while process_markdown scans or download_images runs, no document
\* has been rewritten; once a document has been rewritten, every document
\* was scanned, download_images has returned with every task at its end, and
\* every document written back so far reads as rewritten with that one
\* returned mapping.
C15_RewriteAfterScanAndDownload ==
  /\ (pc = "scan" \/ pc = "spawn" \/ pc = "join") =>
       /\ rewritten = 0
       /\ \A p \in 1..Len(files) : files[p] = Source(p)
  /\ rewritten > 0 =>
       /\ Len(file_list) = Len(files)
       /\ set = AllSourceUrls
       /\ Returned
       /\ \A u \in set : u \in DOMAIN task /\ task[u].pc = "done"
       /\ result_mapping[1] = results
       /\ \A p \in 1..rewritten : RewrittenWith(p, result_mapping[1])

\* C15's case: both documents were rewritten, the first with nothing to
\* change in it and the second with the link of a URL that only the second
\* holds.
C15_Witness ==
  /\ rewritten = 2
  /\ tree = << 3, 1 >>
  /\ files[1] = Source(1)
  /\ files[2] # Source(2)
  /\ DOMAIN result_mapping[1] = { TestUrl }
\* The name of the file of URL u: its digest, then its extension.
NameOf(u) == DigestOf(u) \o ExtOf(u)

\* C16: a task saves only after its fetch returned a body and inserts only
\* after its save succeeded: a task that is saving has fetched once, without
\* an error; no file is made for a URL that is being fetched or whose fetch
\* failed; a task that is about to insert, and every entry of the mapping,
\* has a completely written file with the fetched body, named by the file
\* name of its link.
C16_FetchThenSaveThenInsert ==
  /\ \A u \in DOMAIN task :
       /\ task[u].pc = "save" =>
            /\ u \in DOMAIN fetches /\ fetches[u] = 1
            /\ task[u].error = ""
            /\ task[u].content = Body
       /\ (task[u].pc = "fetch" \/ task[u].error = "download") =>
            NameOf(u) \notin DOMAIN output_dir
       /\ task[u].pc \in { "lock", "insert" } =>
            /\ Materialized(task[u].link)
            /\ LinkFileName(task[u].link) = NameOf(u)
  /\ \A u \in DOMAIN results :
       /\ Materialized(results[u])
       /\ LinkFileName(results[u]) = NameOf(u)
       /\ output_dir[NameOf(u)].content = Body
       /\ u \in DOMAIN task /\ task[u].error = ""

\* C16's case: download_images returned; the fetch of one URL failed and the
\* other URL was saved, so the output directory holds one file, that of the
\* one entry of the mapping.
C16_Witness ==
  /\ Returned
  /\ \E u \in set, v \in set :
       /\ task[u].error = "download"
       /\ DOMAIN result_mapping[1] = { v }
       /\ DOMAIN output_dir = { NameOf(v) }
\* The tasks inside the critical section of the mapping: between the lock
\* and the end of the task, where the guard is dropped.
InCritical ==
  { u \in DOMAIN task :
      \/ task[u].pc \in { "insert", "drop" }
      \/ task[u].pc = "exit" /\ task[u].error = "" }

\* A step that changes the mapping adds the entry of one URL that had none,
\* made by the task of that URL while it holds the lock, and changes no
\* other entry.
OwnKeyOnce ==
  results' # results =>
    \E u \in DOMAIN task :
      /\ mutex = << u >>
      /\ task[u].pc = "insert"
      /\ u \notin DOMAIN results
      /\ DOMAIN results' = DOMAIN results \cup { u }
      /\ \A v \in DOMAIN results : results'[v] = results[v]

\* C17: at most one task is inside the critical section of the mapping and
\* that task holds the lock; a task that is fetching, saving or waiting for
\* the lock does not hold it; and every change of the mapping is the one
\* insert of the task that holds the lock, under the key of its own URL.
C17_InsertsMutuallyExclusive ==
  /\ [](/\ Cardinality(InCritical) <= 1
        /\ \A u \in InCritical : mutex = << u >>
        /\ \A u \in DOMAIN task :
             task[u].pc \in { "fetch", "save", "lock" } => mutex # << u >>)
  /\ [][OwnKeyOnce]_vars

\* C17's case: one task is inserting while the other, saved as well, waits
\* for the lock.
C17_Witness ==
  \E u \in DOMAIN task, v \in DOMAIN task :
    /\ task[u].pc = "insert"
    /\ task[v].pc = "lock"
    /\ mutex = << u >>
\* The tasks that hold a permit.
Holders == { u \in DOMAIN task : task[u].permit }

\* C19: a task at a terminal state (success, fetch failure, save failure) holds
\* no permit; from the entry of download_images on, the permits available and
\* the permits held by tasks not yet ended add up to current_limit, so no
\* failed task keeps a slot from the URLs still pending; and when
\* download_images has returned the permits available are current_limit.
C19_PermitsReleased ==
  /\ \A u \in DOMAIN task : task[u].pc = "done" => ~task[u].permit
  /\ (pc = "spawn" \/ pc = "join" \/ Returned) =>
        semaphore + Cardinality(Holders) = current_limit
  /\ Returned => semaphore = current_limit

\* C19's case: one permit, two URLs, one task failed at its fetch and one at
\* its save or not at all, so the second was admitted after the first ended,
\* and download_images has returned.
C19_Witness ==
  /\ Returned
  /\ current_limit = 1
  /\ Cardinality(DOMAIN task) = 2
  /\ \E u \in DOMAIN task : task[u].error = "download"
  /\ \E u \in DOMAIN task : task[u].error # "download"

\* C18 as it was stated: for every number of permits, 0 included, once
\* download_images is entered it returns.
C18_DownloadImagesReturns == (pc = "spawn") ~> Returned
\* C20 as it was stated: an extension that get_path_ext returned is a dot
\* followed by at least one alphanumeric character.
C20_ExtensionHasAlphanumeric ==
  \A k \in 1..Len(calls) :
    (calls[k].done /\ calls[k].ret # << >>) =>
      /\ Len(calls[k].ret[1]) >= 2
      /\ calls[k].ret[1][1] = "."
      /\ AlnumAfter(calls[k].ret[1], 1)
====
